---- MODULE Spec2Model ----
(***************************************************************************)
(* WhatsApp link generator (src/src/app/page.tsx): the HomePage component  *)
(* keeps a list of conversion records in React state, mirrors it to        *)
(* localStorage under one key, expires records older than 24 hours when    *)
(* the component mounts, and prepends new records on every Convert click.  *)
(*                                                                         *)
(* Strings are sequences of one-character strings.  A JavaScript object is *)
(* a TLA+ record of its properties; null and numbers found inside parsed   *)
(* JSON are tagged records.  A localStorage value is null or a string; a   *)
(* string is the empty string, a text that is not JSON, or a JSON text     *)
(* given by its syntax tree.  Times are milliseconds counted from an       *)
(* origin that lies two expiration periods before Epoch0.                  *)
(***************************************************************************)
EXTENDS Integers, Sequences, FiniteSets, TLC

VARIABLES
    tabs,          \* the browser tabs (sessions) that show the page
    storage,       \* localStorage item stored under LOCAL_STORAGE_KEY
    mounted,       \* mounted[s]: the mount effect of tab s has run
    inputNumbers,  \* inputNumbers[s]: React state of the textarea
    records,       \* records[s]: React state holding the history
    now,           \* the wall clock read by Date.now()
    keyboard,      \* what the user enters: [chars, longest]
    budget,        \* non-blank submits the model still allows
    last,          \* history: the operation that produced this state
    submitted      \* history: [rec, tab] for every record a submit persisted

vars == <<tabs, storage, mounted, inputNumbers, records, now, keyboard, budget, last, submitted>>

----------------------------------------------------------------------------
(* Bounds of the model *)

MaxInputLen == 4    \* longest text entered when the whole keyboard is used
MaxStored == 3      \* longest array found in storage at start
MaxConverts == 2    \* non-blank submits in one behaviour
MaxTicks == 1       \* milliseconds the clock may advance

----------------------------------------------------------------------------
(* Program constants *)

LOCAL_STORAGE_KEY == "whatsAppLinkHistory"
EXPIRATION_TIME_MS == 24 * 60 * 60 * 1000
LinkPrefix == "https://wa.me/"

Epoch0 == 2 * EXPIRATION_TIME_MS   \* the clock when the first tab opens

----------------------------------------------------------------------------
(* Strings *)

WhiteSpace == {" ", "\n"}
Digits == {"0", "1", "2", "3", "4", "5", "6", "7", "8", "9"}

RECURSIVE trimStart(_)
trimStart(str) ==
    IF str # <<>> /\ Head(str) \in WhiteSpace THEN trimStart(Tail(str)) ELSE str

RECURSIVE trimEnd(_)
trimEnd(str) ==
    IF str # <<>> /\ str[Len(str)] \in WhiteSpace
    THEN trimEnd(SubSeq(str, 1, Len(str) - 1))
    ELSE str

\* String.prototype.trim
trim(str) == trimEnd(trimStart(str))

\* inputNumbers.split('\n')
RECURSIVE split(_)
split(str) ==
    IF \A i \in 1..Len(str) : str[i] # "\n"
    THEN <<str>>
    ELSE LET i == CHOOSE k \in 1..Len(str) :
                      str[k] = "\n" /\ \A j \in 1..(k - 1) : str[j] # "\n"
         IN  <<SubSeq(str, 1, i - 1)>> \o split(SubSeq(str, i + 1, Len(str)))

\* Array.prototype.map(line => line.trim())
trimAll(lines) == [i \in 1..Len(lines) |-> trim(lines[i])]

\* faulty variant: empty lines not filtered out
nonEmptyKeepsAll(lines) == lines

\* Array.prototype.filter(line => line.length > 0)
nonEmpty(lines) == SelectSeq(lines, LAMBDA line : Len(line) > 0)

\* originalNumber.replace(/[^\d+]/g, ''): the class [^\d+] is every character
\* that is neither a digit nor '+', wherever it stands
sanitizedNumber(originalNumber) ==
    SelectSeq(originalNumber, LAMBDA c : c \in Digits \cup {"+"})

\* `https://wa.me/${sanitizedNumber}`
link(originalNumber) == <<LinkPrefix>> \o sanitizedNumber(originalNumber)

\* Math.random() is in [0, 1); the sum currentTime + Math.random() is rounded
\* to a double, of which there are 4096 per millisecond at today's clock
\* values.  The model keeps two of them, the fractions 0 and 1/2, and
\* counts ids in half milliseconds.
RandomValues == {0, 1}

\* currentTime + Math.random()
idOf(currentTime, r) == currentTime * 2 + r

----------------------------------------------------------------------------
(* JSON and localStorage values *)

NULL == [form |-> "null"]            \* getItem of a missing key
EmptyString == [form |-> "empty"]    \* the string ""
NotJson == [form |-> "invalid"]      \* a string such as "{not json"
JsonText(tree) == [form |-> "json", value |-> tree]

JsonNull == [node |-> "null"]
JsonNumber(n) == [node |-> "number", n |-> n]
JsonString(s) == [node |-> "string", s |-> s]
JsonObject(members) == [node |-> "object", members |-> members]
JsonArray(elements) == [node |-> "array", elements |-> elements]

JsNull == [jstype |-> "null"]
JsNumber(n) == [jstype |-> "number", n |-> n]
JsArray(items) == [jstype |-> "array", items |-> items]

\* property order of a WhatsAppRecord object literal
PropertyOrder == <<"id", "original", "link", "timestamp">>
NumberProperties == {"id", "timestamp"}

\* JSON.stringify of one object: its members in property order
stringifyObject(obj) ==
    LET keys == SelectSeq(PropertyOrder, LAMBDA k : k \in DOMAIN obj)
    IN  JsonObject([i \in 1..Len(keys) |->
            [key |-> keys[i],
             value |-> IF keys[i] \in NumberProperties
                       THEN JsonNumber(obj[keys[i]])
                       ELSE JsonString(obj[keys[i]])]])

\* JSON.stringify(array of objects)
stringify(arr) ==
    JsonText(JsonArray([i \in 1..Len(arr) |-> stringifyObject(arr[i])]))

\* the JavaScript value of a JSON tree inside an array, or at top level
parseObject(tree) ==
    LET keys == {tree.members[i].key : i \in 1..Len(tree.members)}
        lastOf(k) == CHOOSE i \in 1..Len(tree.members) :
                        /\ tree.members[i].key = k
                        /\ \A j \in (i + 1)..Len(tree.members) : tree.members[j].key # k
        val(v) == IF v.node = "number" THEN v.n ELSE v.s
    IN  [k \in keys |-> val(tree.members[lastOf(k)].value)]

parseElement(tree) ==
    CASE tree.node = "null" -> JsNull
      [] tree.node = "number" -> JsNumber(tree.n)
      [] tree.node = "object" -> parseObject(tree)

\* JSON.parse(storedData): a SyntaxError, or the value
parse(storedData) ==
    IF storedData.form # "json"
    THEN [threw |-> TRUE, value |-> JsNull]
    ELSE [threw |-> FALSE,
          value |-> IF storedData.value.node = "array"
                    THEN JsArray([i \in 1..Len(storedData.value.elements) |->
                                    parseElement(storedData.value.elements[i])])
                    ELSE parseElement(storedData.value)]

isArray(v) == "jstype" \in DOMAIN v /\ v.jstype = "array"

----------------------------------------------------------------------------
(* Mount effect: load and reconcile, lines 22-42 *)

\* (record) => currentTime - record.timestamp < EXPIRATION_TIME_MS, for a
\* record that is not null: a missing timestamp is undefined, the difference
\* is NaN and the comparison is false
\* faulty variant: a record aged exactly 24 hours kept
isValidInclusive(record, currentTime) ==
    /\ "timestamp" \in DOMAIN record
    /\ currentTime - record.timestamp <= EXPIRATION_TIME_MS

isValid(record, currentTime) ==
    /\ "timestamp" \in DOMAIN record
    /\ currentTime - record.timestamp < EXPIRATION_TIME_MS

\* parsedRecords.filter(...): reading .timestamp of a null element throws a
\* TypeError, which ends the whole filter
RECURSIVE filter(_, _)
filter(parsedRecords, currentTime) ==
    IF parsedRecords = <<>>
    THEN [threw |-> FALSE, value |-> <<>>]
    ELSE LET record == Head(parsedRecords)
             rest == filter(Tail(parsedRecords), currentTime)
         IN  IF record = JsNull \/ rest.threw
             THEN [threw |-> TRUE, value |-> <<>>]
             ELSE [threw |-> FALSE,
                   value |-> IF isValid(record, currentTime)
                             THEN <<record>> \o rest.value
                             ELSE rest.value]

\* the body of the try block once storedData is truthy: validRecords, or
\* an exception (SyntaxError of JSON.parse, TypeError of .filter on a value
\* that has no filter method or of a null element)
validRecords(storedData, currentTime) ==
    LET parsedRecords == parse(storedData)
    IN  IF parsedRecords.threw \/ ~isArray(parsedRecords.value)
        THEN [threw |-> TRUE, value |-> <<>>]
        ELSE filter(parsedRecords.value.items, currentTime)

\* localStorage.setItem(LOCAL_STORAGE_KEY, JSON.stringify(validRecords))
setItemOnLoad(valid) == stringify(valid)

Mount(s) ==
    /\ s \in tabs
    /\ ~mounted[s]
    /\ mounted' = [mounted EXCEPT ![s] = TRUE]
    /\ LET storedData == storage
           currentTime == now
           loaded == validRecords(storedData, currentTime)
       IN  IF storedData = NULL \/ storedData = EmptyString
           THEN UNCHANGED <<storage, records>>
           ELSE IF loaded.threw
                THEN /\ storage' = NULL          \* removeItem in the catch
                     /\ UNCHANGED records
                ELSE /\ records' = [records EXCEPT ![s] = loaded.value]
                     /\ storage' = setItemOnLoad(loaded.value)
    /\ last' = [op |-> "mount", tab |-> s, storageBefore |-> storage,
                currentTime |-> now]
    /\ UNCHANGED <<tabs, inputNumbers, now, keyboard, budget, submitted>>

----------------------------------------------------------------------------
(* Textarea onChange, line 100 *)

\* onChange={(e) => setInputNumbers(e.target.value)}: the user appends one
\* character, or clears the field; the model follows the typing only while
\* it still allows a submit
Type(s) ==
    /\ s \in tabs
    /\ mounted[s]
    /\ budget > 0
    /\ \E text \in {<<>>} \cup {Append(inputNumbers[s], c) : c \in keyboard.chars} :
          /\ text # inputNumbers[s]
          /\ Len(text) <= keyboard.longest
          /\ inputNumbers' = [inputNumbers EXCEPT ![s] = text]
    /\ last' = [op |-> "type", tab |-> s]
    /\ UNCHANGED <<tabs, storage, mounted, records, now, keyboard, budget, submitted>>

----------------------------------------------------------------------------
(* Convert button, lines 45-74 *)

\* lines.map(trim).filter(nonempty): the lines that become records
originalNumbers(text) == nonEmpty(trimAll(split(text)))

\* .map(originalNumber => ({id, original, link, timestamp})); random[i] is
\* the value Math.random() returned for line i
newRecords(text, currentTime, random) ==
    LET originals == originalNumbers(text)
    IN  [i \in 1..Len(originals) |->
            [id |-> idOf(currentTime, random[i]),
             original |-> originals[i],
             link |-> link(originals[i]),
             timestamp |-> currentTime]]

\* faulty variants: the old list dropped; the new records put last
updatedRecordsReplace(new, old) == new
updatedRecordsAppend(new, old) == old \o new

\* [...newRecords, ...records]
updatedRecords(new, old) == new \o old

\* faulty variants: the stale state `records` persisted; newRecords alone
toPersistStale(new, old, updated) == old
toPersistNew(new, old, updated) == new

\* the array line 70 hands to JSON.stringify: updatedRecords, not the state
\* `records` of the current render and not newRecords alone
toPersist(new, old, updated) == updated

\* localStorage.setItem(LOCAL_STORAGE_KEY, JSON.stringify(updatedRecords))
setItemOnConvert(updated) == stringify(updated)

\* faulty variant: the test without trim()
isBlankUntrimmed(text) == text = <<>>

\* !inputNumbers.trim()
isBlank(text) == trim(text) = <<>>

handleConvert(s) ==
    /\ s \in tabs
    /\ mounted[s]
    /\ last' = [op |-> "convert", tab |-> s, input |-> inputNumbers[s],
                recordsBefore |-> records[s], storageBefore |-> storage,
                currentTime |-> now]
    /\ IF isBlank(inputNumbers[s])
       THEN UNCHANGED <<storage, records, inputNumbers, budget, submitted>>
       ELSE /\ budget > 0
            /\ budget' = budget - 1
            /\ \E random \in [1..Len(originalNumbers(inputNumbers[s])) -> RandomValues] :
                  LET currentTime == now
                      new == newRecords(inputNumbers[s], currentTime, random)
                      updated == updatedRecords(new, records[s])
                  IN  /\ records' = [records EXCEPT ![s] = updated]
                      /\ storage' = setItemOnConvert(toPersist(new, records[s], updated))
                      /\ submitted' = submitted \cup
                            {[rec |-> new[i], tab |-> s] : i \in 1..Len(new)}
            /\ inputNumbers' = [inputNumbers EXCEPT ![s] = <<>>]
    /\ UNCHANGED <<tabs, mounted, now, keyboard>>

----------------------------------------------------------------------------
(* The clock *)

Tick ==
    /\ now < Epoch0 + MaxTicks
    /\ now' = now + 1
    /\ last' = [op |-> "tick"]
    /\ UNCHANGED <<tabs, storage, mounted, inputNumbers, records, keyboard, budget, submitted>>

----------------------------------------------------------------------------
(* What localStorage may hold when the first tab opens *)

\* stored timestamps: aged exactly 24 hours, one millisecond less, and one
\* second, when the first tab opens
StoredTimestamps ==
    {Epoch0 - EXPIRATION_TIME_MS, Epoch0 - EXPIRATION_TIME_MS + 1, Epoch0 - 1000}

\* a record an earlier session wrote at time ts
StoredRecord(ts) ==
    [id |-> idOf(ts, 0), original |-> <<"1">>, link |-> link(<<"1">>), timestamp |-> ts]

\* an object that has a fresh timestamp and none of the other properties
PartialObject == JsonObject(<<[key |-> "timestamp", value |-> JsonNumber(Epoch0 - 1000)]>>)

WellFormedElements == {stringifyObject(StoredRecord(ts)) : ts \in StoredTimestamps}
MalformedElements == {JsonNull, JsonNumber(5), PartialObject}

\* the sequences of at most n elements of S, none repeated
RECURSIVE DistinctSeqs(_, _)
DistinctSeqs(S, n) ==
    IF n = 0 THEN {<<>>}
    ELSE LET shorter == DistinctSeqs(S, n - 1)
         IN  shorter \cup
             UNION {{Append(q, e) : e \in S \ {q[i] : i \in 1..Len(q)}} :
                       q \in shorter}

\* every stored value of the model: absent, empty, not JSON, JSON that is
\* no array, and the arrays of at most MaxStored elements
StoredValues ==
    {NULL, EmptyString, NotJson,
     JsonText(JsonNull), JsonText(JsonNumber(5)), JsonText(PartialObject)}
    \cup {JsonText(JsonArray(q)) :
             q \in DistinctSeqs(WellFormedElements \cup MalformedElements, MaxStored)}

AllKeys == {"1", "+", "-", " ", "\n"}
DigitKeys == {"1", "\n"}

InitWith(tabSets, storedValues, chars, longest, converts) ==
    /\ tabs \in tabSets
    /\ storage \in storedValues
    /\ mounted = [s \in tabs |-> FALSE]
    /\ inputNumbers = [s \in tabs |-> <<>>]
    /\ records = [s \in tabs |-> <<>>]
    /\ now = Epoch0
    /\ keyboard = [chars |-> chars, longest |-> longest]
    /\ budget = converts
    /\ last = [op |-> "none"]
    /\ submitted = {}

Next ==
    \/ \E s \in tabs : Mount(s)
    \/ \E s \in tabs : Type(s)
    \/ \E s \in tabs : handleConvert(s)
    \/ Tick

Young == stringifyObject(StoredRecord(Epoch0 - 1000))
Borderline == stringifyObject(StoredRecord(Epoch0 - EXPIRATION_TIME_MS + 1))

\* one stored value of each kind: absent, empty, not JSON, JSON that is no
\* array, and arrays of records, of other values, and of both
SomeStoredValues ==
    {NULL, EmptyString, NotJson, JsonText(JsonNull),
     JsonText(JsonArray(<<>>)),
     JsonText(JsonArray(<<Young, Borderline>>)),
     JsonText(JsonArray(<<PartialObject>>)),
     JsonText(JsonArray(<<Young, JsonNull>>)),
     JsonText(JsonArray(<<JsonNumber(5), Young>>))}

\* one tab, a stored value of each kind, the user entering digits and
\* newlines and submitting MaxConverts times
Init == InitWith({{"A"}}, SomeStoredValues, DigitKeys, 3, MaxConverts)
Spec == Init /\ [][Next]_vars

\* one tab, every stored value, one submit
InitLoad == InitWith({{"A"}}, StoredValues, DigitKeys, 3, 1)
SpecLoad == InitLoad /\ [][Next]_vars

\* one tab, one submit of any text over the whole keyboard
InitConvert ==
    InitWith({{"A"}},
             {NULL, JsonText(JsonArray(<<Young>>))},
             AllKeys, MaxInputLen, 1)
SpecConvert == InitConvert /\ [][Next]_vars

\* one or two tabs sharing the storage key
InitTabs ==
    InitWith({{"A"}, {"A", "B"}},
             {NULL, JsonText(JsonArray(<<Young>>))},
             {"1"}, 1, MaxConverts)
SpecTabs == InitTabs /\ [][Next]_vars

----------------------------------------------------------------------------
(* Reading the state *)

NotACollection == <<[notACollection |-> TRUE]>>

\* the collection a stored value holds, read the way lines 24-26 read it:
\* a missing key and the empty string hold no record
persisted(item) ==
    IF item = NULL \/ item = EmptyString THEN <<>>
    ELSE LET parsed == parse(item)
         IN  IF parsed.threw \/ ~isArray(parsed.value)
             THEN NotACollection
             ELSE parsed.value.items

\* a value with the four properties of interface WhatsAppRecord
isRecord(v) == DOMAIN v = {"id", "original", "link", "timestamp"}

isCollection(item) ==
    /\ item.form = "json"
    /\ LET held == persisted(item)
       IN  /\ held # NotACollection
           /\ \A i \in 1..Len(held) : isRecord(held[i])

contains(seq, r) == \E i \in 1..Len(seq) : seq[i] = r

onlyWhiteSpace(text) == \A i \in 1..Len(text) : text[i] \in WhiteSpace

loadedJust == last.op = "mount"
convertedJust == last.op = "convert"
submittedJust == convertedJust /\ ~onlyWhiteSpace(last.input)

\* a record a submit persisted that the stored collection no longer holds
lost(x) == ~contains(persisted(storage), x.rec)

\* the records the last submit created: the front of the tab's list
created == SubSeq(records[last.tab], 1, Len(records[last.tab]) - Len(last.recordsBefore))

----------------------------------------------------------------------------
(* Claims *)

\* C1: in a single session, once the mount effect has run, the collection
\* persisted under the key equals the in-memory records after every
\* operation (load of absent, empty, malformed or valid storage, and every
\* submit).
C1_PersistedMirrorsMemory ==
    \A s \in tabs : mounted[s] => persisted(storage) = records[s]

C1_Witness ==
    /\ submittedJust
    /\ Len(last.recordsBefore) > 0
    /\ Len(records[last.tab]) > Len(last.recordsBefore)
    /\ persisted(storage) = records[last.tab]

\* C2: the load of a valid stored collection at time now keeps exactly the
\* records with now - timestamp < 86400000, in their stored order; the kept
\* list is the in-memory collection and the stored value, and every record
\* in memory is younger than 24 hours.
C2_LoadKeepsExactlyTheYoung ==
    (loadedJust /\ isCollection(last.storageBefore)) =>
        LET before == persisted(last.storageBefore)
            kept == SelectSeq(before,
                        LAMBDA r : ~(last.currentTime - r.timestamp >= 86400000))
        IN  /\ records[last.tab] = kept
            /\ persisted(storage) = kept
            /\ storage.form = "json"
            /\ \A i \in 1..Len(records[last.tab]) :
                  last.currentTime - records[last.tab][i].timestamp < 86400000

C2_Witness ==
    /\ loadedJust
    /\ isCollection(last.storageBefore)
    /\ Len(persisted(last.storageBefore)) = 2
    /\ Len(records[last.tab]) = 1
    /\ last.currentTime - records[last.tab][1].timestamp = 86400000 - 1

\* C3: the load of a malformed stored value (text that does not parse, or
\* JSON that is not an array of records) ends with no record in memory and
\* with storage holding the empty collection.
C3_MalformedLoadsEmpty ==
    (/\ loadedJust
     /\ last.storageBefore \notin {NULL, EmptyString}
     /\ ~isCollection(last.storageBefore)) =>
        /\ records[last.tab] = <<>>
        /\ persisted(storage) = <<>>

\* C4: the load of a stored collection drops no record younger than 24
\* hours, and a submit, blank or not, drops no record of the in-memory or
\* of the persisted collection.
C4_OnlyExpirationRemoves ==
    /\ (loadedJust /\ isCollection(last.storageBefore)) =>
          LET before == persisted(last.storageBefore)
              after == persisted(storage)
          IN  \A i \in 1..Len(before) :
                 last.currentTime - before[i].timestamp < 86400000 =>
                    /\ contains(records[last.tab], before[i])
                    /\ contains(after, before[i])
    /\ convertedJust =>
          LET before == persisted(last.storageBefore)
              after == persisted(storage)
          IN  /\ \A i \in 1..Len(last.recordsBefore) :
                    contains(records[last.tab], last.recordsBefore[i])
              /\ \A i \in 1..Len(before) : contains(after, before[i])

C4_Witness ==
    /\ submittedJust
    /\ Len(last.recordsBefore) = 2
    /\ \A i \in 1..2 : isRecord(last.recordsBefore[i])
    /\ last.currentTime - last.recordsBefore[2].timestamp >= 86400000 - 1
    /\ contains(persisted(storage), last.recordsBefore[2])

\* C5: after a non-blank submit the list is the new records, in input-line
\* order, followed by the list held before, every old record unchanged;
\* that list is in memory and in storage.
C5_SubmitPrepends ==
    submittedJust =>
        LET after == records[last.tab]
            n == Len(after) - Len(last.recordsBefore)
        IN  /\ n >= 0
            /\ SubSeq(after, n + 1, Len(after)) = last.recordsBefore
            /\ [i \in 1..n |-> after[i].original] = originalNumbers(last.input)
            /\ \A i \in 1..n : after[i].timestamp = last.currentTime
            /\ persisted(storage) = after

C5_Witness ==
    /\ submittedJust
    /\ Len(last.recordsBefore) > 0
    /\ Len(created) = 2
    /\ created[1].original = <<"+", "1">>
    /\ created[2].original = <<"1">>
    /\ records[last.tab][3] = last.recordsBefore[1]

\* C6: a submit of empty or whitespace-only input changes neither the
\* in-memory collection, nor the stored value, nor the input field.
C6_BlankSubmitIsNoOp ==
    (convertedJust /\ onlyWhiteSpace(last.input)) =>
        /\ records[last.tab] = last.recordsBefore
        /\ storage = last.storageBefore
        /\ inputNumbers[last.tab] = last.input

C6_Witness ==
    /\ convertedJust
    /\ onlyWhiteSpace(last.input)
    /\ contains(last.input, " ")
    /\ contains(last.input, "\n")
    /\ Len(last.recordsBefore) > 0
    /\ storage # NULL

\* C7: a non-blank submit creates one record per line that is not empty
\* after trimming; a line without digit or plus sign still gives a record,
\* whose link is the bare prefix.
C7_OneRecordPerNonBlankLine ==
    submittedJust =>
        LET lines == split(last.input)
            nonBlank == {i \in 1..Len(lines) : ~onlyWhiteSpace(lines[i])}
        IN  /\ Len(records[last.tab]) - Len(last.recordsBefore) = Cardinality(nonBlank)
            /\ \A i \in 1..Len(created) :
                  (\A j \in 1..Len(created[i].original) :
                      created[i].original[j] \notin Digits \cup {"+"})
                  => created[i].link = <<"https://wa.me/">>

C7_Witness ==
    /\ submittedJust
    /\ Len(split(last.input)) = 2
    /\ Len(created) = 1
    /\ created[1].original = <<"-">>
    /\ created[1].link = <<"https://wa.me/">>

\* C8: the link of every created record is the prefix followed by ASCII
\* digits with at most one plus sign, which may stand only in front.
C8_PlusOnlyLeading ==
    submittedJust =>
        \A i \in 1..Len(created) :
            LET l == created[i].link
            IN  /\ l[1] = "https://wa.me/"
                /\ \A j \in 2..Len(l) : l[j] \in Digits \cup {"+"}
                /\ \A j \in 3..Len(l) : l[j] # "+"

\* C9: no two records of a session's collection have the same id.
C9_IdsUnique ==
    \A s \in tabs : \A i, j \in 1..Len(records[s]) :
        (/\ i # j
         /\ "id" \in DOMAIN records[s][i]
         /\ "id" \in DOMAIN records[s][j]) => records[s][i].id # records[s][j].id

\* C10: a record a submit persisted is missing from storage only after a
\* different tab, whose list does not hold the record, has written the
\* key; with a single tab no persisted record is ever missing.
C10_LostUpdateNeedsSecondTab ==
    \A x \in submitted :
        lost(x) => \E t \in tabs \ {x.tab} :
                      /\ mounted[t]
                      /\ ~contains(records[t], x.rec)
                      /\ persisted(storage) = records[t]

C10_Witness ==
    /\ tabs = {"A", "B"}
    /\ submittedJust
    /\ last.tab = "B"
    /\ \E x \in submitted : x.tab = "A" /\ lost(x) /\ contains(records["A"], x.rec)

====
